---------------------------- MODULE Spec2Model ----------------------------
(***************************************************************************)
(* A model of the r-pixi-venv editor extension (src/src/extension.ts):     *)
(* the preview supervisor (previewQuartoDocument, its close, error and     *)
(* data handlers, deactivate), the setup run (setupPixiEnvironment,        *)
(* getPixiInfo, createWrapperScripts, configureWorkspaceSettings), the    *)
(* install command (installPixiDependencies) and the render invoker        *)
(* (renderQuartoDocument, renderQuartoDocumentWithFormat).                 *)
(*                                                                         *)
(* The extension host is single threaded: a handler runs to its next       *)
(* await (or to its end) before any other callback is dispatched, so each  *)
(* action below is one such synchronous segment of the code.               *)
(***************************************************************************)
EXTENDS Integers, Sequences, FiniteSets, TLC

VARIABLES
    previewProcess,   \* extension.ts:12, the tracked handle: a process id, or Null
    proc,             \* every ChildProcess object spawned by previewQuartoDocument
    active,           \* the extension is activated (commands are registered)
    platform,         \* process.platform
    workspaceFolders, \* vscode.workspace.workspaceFolders, <<>> when undefined
    files,            \* the files on disk: path -> content, Absent when missing
    settings,         \* the workspace settings: key -> value, Unset when missing
    runs,             \* the calls of setupPixiEnvironment in progress
    hist,             \* what the setup runs have done so far (history)
    install,          \* the call of installPixiDependencies in progress
    renders,          \* the render processes in flight, in the order of their start
    picking,          \* the format picker of renderQuartoDocumentWithFormat is open
    lastOp            \* the step taken last, with what it did (history)

previewVars == <<previewProcess, proc>>

hostVars == <<platform, workspaceFolders>>

setupVars == <<settings, runs, hist, install>>

renderVars == <<renders, picking>>

vars ==
    <<previewProcess, proc, active, platform, workspaceFolders, files, settings,
      runs, hist, install, renders, picking, lastOp>>

-----------------------------------------------------------------------------
(* Bounds of the model *)

\* number of preview processes that can be spawned in one behaviour
MaxProcs == 2

\* number of workspace folders
NFolders == 2

\* number of render processes that can be in flight at once
MaxRenders == 2

\* number of calls of setupPixiEnvironment that can be in progress at once
MaxRuns == 1

\* number of environment records in a response of `pixi info --json`
MaxEnvs == 2

\* number of calls of setupPixiEnvironment in one behaviour
MaxSetups == 2

-----------------------------------------------------------------------------
(* The workspace: folders, documents and files *)

Null == 0

Pids == 1..MaxProcs

Folders == 1..NFolders

Platforms == {"linux", "darwin", "win32"}

\* the documents an editor can show: vscode.window.activeTextEditor.document
Docs == {"a.qmd", "b.rmd", "c.Rmd", "d.qmd", "n.txt"}

NoEditor == "<no editor>"

\* document.languageId
DocLanguage(d) ==
    CASE d = "a.qmd" -> "quarto"
      [] d = "d.qmd" -> "quarto"
      [] d = "b.rmd" -> "rmd"
      [] d = "c.Rmd" -> "rmd"
      [] OTHER -> "plaintext"

\* the last four characters of document.fileName
DocSuffix(d) ==
    CASE d = "a.qmd" -> ".qmd"
      [] d = "d.qmd" -> ".qmd"
      [] d = "b.rmd" -> ".rmd"
      [] d = "c.Rmd" -> ".Rmd"
      [] OTHER -> ".txt"

\* vscode.workspace.getWorkspaceFolder(document.uri): Null outside the workspace
DocFolder(d) ==
    CASE d = "a.qmd" -> 1
      [] d = "b.rmd" -> 2
      [] d = "c.Rmd" -> 1
      [] d = "n.txt" -> 1
      [] OTHER -> Null

\* a path: a file of workspace folder f, or a file under environment prefix
FolderPath(f, name) == [f |-> f, prefix |-> "", name |-> name]

PrefixPath(prefix, name) == [f |-> Null, prefix |-> prefix, name |-> name]

\* a file's content; the files the extension writes are a fixed text with
\* a manifest name and an environment name in it
Absent == [text |-> "<absent>", manifest |-> "", env |-> ""]

Text(t) == [text |-> t, manifest |-> "", env |-> ""]

\* extension.ts:151, 227, 359
WrapperExt(plat) == IF plat = "win32" THEN ".bat" ELSE ".sh"

WrapperName(tool, plat) ==
    CASE tool = "quarto" /\ plat = "win32" -> ".vscode/quarto-pixi-wrapper.bat"
      [] tool = "quarto" /\ plat # "win32" -> ".vscode/quarto-pixi-wrapper.sh"
      [] tool = "rterm" /\ plat = "win32" -> ".vscode/rterm-pixi-wrapper.bat"
      [] OTHER -> ".vscode/rterm-pixi-wrapper.sh"

\* path.join(vscodeDir, `quarto-pixi-wrapper${wrapperExt}`): extension.ts:153, 229, 361
QuartoWrapperPath(f, plat) == FolderPath(f, WrapperName("quarto", plat))

\* extension.ts:360
RTermWrapperPath(f, plat) == FolderPath(f, WrapperName("rterm", plat))

\* fs.existsSync(path)
existsSync(path) == files[path] # Absent

-----------------------------------------------------------------------------
(* Output text.  A chunk is a sequence of characters; the characters are   *)
(* taken from the classes the two regular expressions of the code tell     *)
(* apart.  "ttp://localhost:" stands for that run of characters (or for    *)
(* "ttp://127.0.0.1:"), none of which can start, continue or end an escape *)
(* sequence at its first position.                                         *)

ESC == "ESC"                    \* \u001b
CSI == "CSI"                    \* \u009b, a character above 0x7F
BoxChar == "U"                  \* any other character above 0x7F
Space == " "
UrlRest == "ttp://localhost:"

Chars == {ESC, CSI, "[", ";", "1", "m", "h", UrlRest, BoxChar, "x", Space}

\* [\u001b\u009b]
IsEscStart(c) == c \in {ESC, CSI}

\* [[()#;?]
IsIntro(c) == c \in {"[", ";"}

\* [0-9]
IsDigit(c) == c = "1"

\* [0-9A-ORZcf-nqry=><]
IsFinal(c) == c \in {"1", "m", "h"}

\* [^\x00-\x7F]
IsNonAscii(c) == c \in {CSI, BoxChar}

\* the number of characters of the class cls at s[j], s[j+1], ..., at most
\* max
RECURSIVE RunLen(_, _, _, _)
RunLen(cls, s, j, max) ==
    IF max = 0 \/ j > Len(s) \/ s[j] \notin cls THEN 0
    ELSE 1 + RunLen(cls, s, j + 1, max - 1)

\* the final character of an escape sequence at s[j]: the index of the last
\* character matched, 0 when there is no match
MatchFinal(s, j) == IF j <= Len(s) /\ IsFinal(s[j]) THEN j ELSE 0

\* (?:;[0-9]{0,4})* and the final character, from s[j]: greedy, giving
\* back one digit and then one repetition at a time
RECURSIVE MatchTail(_, _), TailDigits(_, _, _)
MatchTail(s, j) ==
    LET more == IF j <= Len(s) /\ s[j] = ";"
                THEN TailDigits(s, j + 1, RunLen({c \in Chars : IsDigit(c)}, s, j + 1, 4))
                ELSE 0
    IN  IF more # 0 THEN more ELSE MatchFinal(s, j)

TailDigits(s, j, d) ==
    LET r == MatchTail(s, j + d)
    IN  IF r # 0 THEN r
        ELSE IF d = 0 THEN 0
        ELSE TailDigits(s, j, d - 1)

\* (?:[0-9]{1,4}(?:;[0-9]{0,4})*)? and the final character, from s[j]
RECURSIVE GroupDigits(_, _, _)
GroupDigits(s, j, d) ==
    IF d = 0 THEN MatchFinal(s, j)
    ELSE LET r == MatchTail(s, j + d)
         IN  IF r # 0 THEN r ELSE GroupDigits(s, j, d - 1)

MatchGroup(s, j) == GroupDigits(s, j, RunLen({c \in Chars : IsDigit(c)}, s, j, 4))

\* [[()#;?]* and the rest, from s[j], having taken k characters of the class
RECURSIVE MatchIntro(_, _, _)
MatchIntro(s, j, k) ==
    LET r == MatchGroup(s, j + k)
    IN  IF r # 0 THEN r
        ELSE IF k = 0 THEN 0
        ELSE MatchIntro(s, j, k - 1)

\* the escape sequence that starts at s[i]: the index of its last
\* character, 0 when none starts there
AnsiMatchAt(s, i) ==
    IF IsEscStart(s[i])
    THEN MatchIntro(s, i + 1, RunLen({c \in Chars : IsIntro(c)}, s, i + 1, Len(s)))
    ELSE 0

\* str.replace(/.../g, ''): the matches are removed from left to right
RECURSIVE StripFrom(_, _)
StripFrom(s, i) ==
    IF i > Len(s) THEN <<>>
    ELSE LET e == AnsiMatchAt(s, i)
         IN  IF e # 0 THEN StripFrom(s, e + 1)
             ELSE <<s[i]>> \o StripFrom(s, i + 1)

stripAnsi(str) == StripFrom(str, 1)

\* .replace(/[^\x00-\x7F]/g, " ")
ReplaceNonAscii(s) == [i \in 1..Len(s) |-> IF IsNonAscii(s[i]) THEN Space ELSE s[i]]

\* the text handleOutput appends to the log and scans
CleanedStr(str) == ReplaceNonAscii(stripAnsi(str))

\* s.match(/http:\/\/(localhost|127\.0\.0\.1):\d+/) at s[i]
UrlAt(s, i) ==
    /\ i + 2 <= Len(s)
    /\ s[i] = "h"
    /\ s[i + 1] = UrlRest
    /\ IsDigit(s[i + 2])

UrlMatch(s) == \E i \in 1..Len(s) : UrlAt(s, i)

\* the chunks a preview process writes in the model
PreviewChunks ==
    { <<"x">>,
      <<"h", UrlRest>>,
      <<"h", UrlRest, "1", "1">>,
      <<ESC, "[", "1", "m", "h", UrlRest, "1", BoxChar>>,
      <<ESC, "h", UrlRest, "1">>,
      <<"h", ESC, "[", "m", UrlRest, "1">>,
      <<ESC, ESC, "[", "1", "m", "m">> }


-----------------------------------------------------------------------------
(* The preview supervisor *)

\* a ChildProcess object: st is "none" before it is spawned, "live" while
\* the operating system process runs, "failed" when the spawn failed,
\* "errored" once the error event of a failed spawn was delivered, "exited"
\* once the process has exited and "closed" once its close event was
\* delivered; sig counts the kill('SIGINT') calls made on it, opened the
\* simpleBrowser.api.open calls made for it; latch is the browserOpened
\* variable of its closure; url tells that the code's scan has found a
\* loopback URL in the logged text of one of its chunks so far (history)
NoProc == [st |-> "none", sig |-> 0, latch |-> FALSE, opened |-> 0, url |-> FALSE]

\* a step as the user can see it: result is its outcome, fx its effects in
\* order, notify the kind of notification it shows ("" for none), log tells
\* that it appends a line about its outcome to the output view, text is the
\* process output it appends to the output view
NoOp ==
    [op |-> "none", pid |-> Null, was |-> Null, result |-> "", doc |-> "",
     stream |-> "", fx |-> <<>>, folder |-> Null, envs |-> <<>>,
     env |-> [name |-> "", prefix |-> "<undefined>"], notify |-> "",
     format |-> "<undefined>", data |-> <<>>, text |-> <<>>, log |-> FALSE]

\* the state a handler works on: the handle, the processes, and the
\* effects of the handler so far, in order
Kill(s, p) ==
    [s EXCEPT !.proc[p].sig = @ + 1,
              !.fx = Append(@, [e |-> "kill", p |-> p])]

SetHandle(s, v) ==
    [s EXCEPT !.pp = v, !.fx = Append(@, [e |-> "handle", p |-> v])]

KillExistingNoReset(s) ==
    IF s.pp # Null THEN Kill(s, s.pp) ELSE s

\* extension.ts:236-240
KillExisting(s) ==
    IF s.pp # Null THEN SetHandle(Kill(s, s.pp), Null) ELSE s

\* extension.ts:249-254: previewProcess = spawn(...), browserOpened = false
SpawnPreview(s, p, ok) ==
    SetHandle([s EXCEPT !.proc[p] = [NoProc EXCEPT !.st = IF ok THEN "live" ELSE "failed"],
                        !.fx = Append(@, [e |-> "spawn", p |-> p])],
              p)

\* extension.ts:208-234: the checks a preview (or render) request makes
\* before it starts a process
RequestCheck(d) ==
    IF d = NoEditor THEN "noEditor"
    ELSE IF DocLanguage(d) # "quarto" /\ DocSuffix(d) # ".qmd" /\ DocSuffix(d) # ".rmd"
         THEN "notQuarto"
    ELSE IF DocFolder(d) = Null THEN "noWorkspace"
    ELSE IF ~existsSync(QuartoWrapperPath(DocFolder(d), platform)) THEN "noWrapper"
    ELSE "ok"

UnusedPids == {p \in Pids : proc[p].st = "none"}

PreviewBodyKillFirst(check, s, p, ok) ==
    IF check # "ok" THEN KillExisting(s) ELSE SpawnPreview(KillExisting(s), p, ok)

\* extension.ts:208-293: what a preview request does to the state s, its
\* checks ending with `check`; p is the process a spawn creates
PreviewBody(check, s, p, ok) ==
    IF check # "ok" THEN s ELSE SpawnPreview(KillExisting(s), p, ok)

\* extension.ts:207-293
previewQuartoDocument(d) ==
    /\ active
    /\ RequestCheck(d) = "ok" => UnusedPids # {}
    /\ \E ok \in BOOLEAN :
         LET p == IF UnusedPids = {} THEN Null
                  ELSE CHOOSE q \in UnusedPids : \A r \in UnusedPids : q <= r
             s == PreviewBody(RequestCheck(d),
                              [pp |-> previewProcess, proc |-> proc, fx |-> <<>>], p, ok)
         IN  /\ previewProcess' = s.pp
             /\ proc' = s.proc
             /\ lastOp' = [NoOp EXCEPT
                             !.op = "preview", !.was = previewProcess, !.doc = d,
                             !.result = RequestCheck(d), !.fx = s.fx,
                             !.pid = IF RequestCheck(d) = "ok" THEN p ELSE Null,
                             !.notify = IF RequestCheck(d) = "ok" THEN "" ELSE "error"]
    /\ UNCHANGED <<active, hostVars, files, setupVars, renderVars>>

ScanChunkNoLatch(pr, cleanedStr) ==
    IF ~pr.latch /\ UrlMatch(cleanedStr)
    THEN [pr EXCEPT !.opened = @ + 1]
    ELSE pr

\* extension.ts:262-273: the scan of one chunk's logged text, on the
\* ChildProcess record pr
ScanChunk(pr, cleanedStr) ==
    IF ~pr.latch /\ UrlMatch(cleanedStr)
    THEN [pr EXCEPT !.latch = TRUE, !.opened = @ + 1]
    ELSE pr

\* extension.ts:256-274, for a chunk of process p on stdout or stderr
handleOutput(p, stream, data) ==
    /\ proc[p].st \in {"live", "exited"}
    /\ LET cleanedStr == CleanedStr(data)
           pr == ScanChunk(proc[p], cleanedStr)
       IN  /\ proc' = [proc EXCEPT ![p] = [pr EXCEPT !.url = @ \/ UrlMatch(cleanedStr)]]
           /\ lastOp' = [NoOp EXCEPT !.op = "data", !.pid = p, !.was = previewProcess,
                                     !.stream = stream, !.text = cleanedStr,
                                     !.result = IF UrlMatch(cleanedStr) THEN "url" ELSE "",
                                     !.fx = IF pr.opened # proc[p].opened
                                            THEN <<[e |-> "open", p |-> p]>>
                                            ELSE <<>>]
    /\ UNCHANGED <<previewProcess, active, hostVars, files, setupVars, renderVars>>

\* the operating system process of p ends: by itself, or on a signal
ProcessExit(p) ==
    /\ proc[p].st = "live"
    /\ proc' = [proc EXCEPT ![p].st = "exited"]
    /\ lastOp' = [NoOp EXCEPT !.op = "exit", !.pid = p, !.was = previewProcess]
    /\ UNCHANGED <<previewProcess, active, hostVars, files, setupVars, renderVars>>

HandleKeptAfterClose(pp, p) == pp

\* the handle after the close handler, extension.ts:285-287
HandleAfterClose(pp, p) == IF pp # Null THEN Null ELSE pp

\* extension.ts:283-288: the close event of process p
onClose(p) ==
    /\ proc[p].st \in {"exited", "errored"}
    /\ proc' = [proc EXCEPT ![p].st = "closed"]
    /\ previewProcess' = HandleAfterClose(previewProcess, p)
    /\ lastOp' = [NoOp EXCEPT !.op = "close", !.pid = p, !.was = previewProcess]
    /\ UNCHANGED <<active, hostVars, files, setupVars, renderVars>>

\* the handle after the error handler, extension.ts:290-292
HandleAfterError(pp, p) == pp

\* extension.ts:290-292: the error event of process p, for a spawn that
\* failed or for an error while the process runs
onError(p) ==
    /\ proc[p].st \in {"live", "failed"}
    /\ proc' = [proc EXCEPT ![p].st = IF @ = "failed" THEN "errored" ELSE @]
    /\ previewProcess' = HandleAfterError(previewProcess, p)
    /\ lastOp' = [NoOp EXCEPT !.op = "error", !.pid = p, !.was = previewProcess,
                              !.log = TRUE]
    /\ UNCHANGED <<active, hostVars, files, setupVars, renderVars>>

DeactivateNoSignal(s) ==
    IF s.pp # Null THEN SetHandle(s, Null) ELSE s

\* extension.ts:51-56
DeactivateBody(s) == KillExisting(s)

deactivate ==
    /\ active
    /\ LET s == DeactivateBody([pp |-> previewProcess, proc |-> proc, fx |-> <<>>])
       IN  /\ previewProcess' = s.pp
           /\ proc' = s.proc
           /\ lastOp' = [NoOp EXCEPT !.op = "deactivate", !.was = previewProcess,
                                     !.fx = s.fx]
    /\ active' = FALSE
    /\ UNCHANGED <<hostVars, files, setupVars, renderVars>>

-----------------------------------------------------------------------------
(* Setup: setupPixiEnvironment, getPixiInfo, createWrapperScripts and      *)
(* configureWorkspaceSettings                                              *)

RunIds == 1..MaxRuns

\* the values of the prefix field of an environment record
NoPrefix == "<undefined>"

Prefixes == {"/env1", "/env2"}

PrefixValues == {NoPrefix, ""} \cup Prefixes

\* the elements of environments_info in the model: a record named
\* 'default' and one named otherwise, each with a prefix or without (the
\* field missing, or empty)
EnvRecords ==
    { [name |-> "default", prefix |-> "/env1"],
      [name |-> "default", prefix |-> ""],
      [name |-> "dev", prefix |-> "/env2"],
      [name |-> "dev", prefix |-> NoPrefix] }

NoEnv == [name |-> "", prefix |-> NoPrefix]

EnvLists == UNION {[1..n -> EnvRecords] : n \in 0..MaxEnvs}

\* what `pixi info --json` can end with: the command fails, its output is no
\* JSON, is the JSON null, is an object without environments_info, or is an
\* object with a list of environment records
InfoResponses ==
    {[kind |-> k, envs |-> <<>>] : k \in {"execError", "badJson", "null", "noField"}}
        \cup {[kind |-> "list", envs |-> e] : e \in EnvLists}

\* the responses of the setup run of a whole workspace: every outcome
\* without a list, every list of at most one record, and a list with a
\* record named 'default' behind another one
InfoSamples ==
    {resp \in InfoResponses : Len(resp.envs) <= 1}
        \cup {[kind |-> "list",
               envs |-> << [name |-> "dev", prefix |-> "/env2"],
                           [name |-> "default", prefix |-> "/env1"] >>]}

\* the manifest files of a folder
ManifestNames == {"pixi.toml", "pyproject.toml"}

FilePaths ==
    {FolderPath(f, n) :
        f \in Folders,
        n \in ManifestNames \cup {".pixi-activate.sh"}
                \cup {WrapperName(t, pl) : t \in {"rterm", "quarto"}, pl \in Platforms}}
      \cup {PrefixPath(x, n) : x \in Prefixes, n \in {"bin/conda", "bin/activate"}}

HasManifestAlways(f) == TRUE

\* extension.ts:71, 306
HasManifest(f) ==
    existsSync(FolderPath(f, "pixi.toml")) \/ existsSync(FolderPath(f, "pyproject.toml"))

SelectFirst(envs) == envs[1]

\* extension.ts:76: find the record named 'default', else take the first
SelectEnv(envs) ==
    IF \E i \in 1..Len(envs) : envs[i].name = "default"
    THEN envs[CHOOSE i \in 1..Len(envs) :
                 /\ envs[i].name = "default"
                 /\ \A j \in 1..(i - 1) : envs[j].name # "default"]
    ELSE envs[1]

TruthyIfDefined(prefix) == prefix # NoPrefix

\* a value is truthy: extension.ts:79
Truthy(prefix) == prefix # NoPrefix /\ prefix # ""

OsKeyLinux(plat) == "linux"

\* extension.ts:495-507: the settings keys of the host operating system
OsKey(plat) ==
    CASE plat = "win32" -> "windows"
      [] plat = "darwin" -> "mac"
      [] OTHER -> "linux"

SettingKeys ==
    {[section |-> "r", key |-> k, os |-> o] :
        k \in {"rpath", "rterm"}, o \in {"windows", "mac", "linux"}}
      \cup {[section |-> "quarto", key |-> "path", os |-> ""]}

Unset == [kind |-> "unset", f |-> Null, prefix |-> "", name |-> ""]

PathValue(path) == [kind |-> "path", f |-> path.f, prefix |-> path.prefix, name |-> path.name]

\* extension.ts:408-410
RBinPath(prefix, plat) ==
    IF plat = "win32" THEN PrefixPath(prefix, "lib/R/bin/R.exe")
    ELSE PrefixPath(prefix, "bin/R")

\* extension.ts:363-365
ManifestName(f) ==
    IF existsSync(FolderPath(f, "pixi.toml")) THEN "pixi.toml" ELSE "pyproject.toml"

\* extension.ts:370-380: the text of a wrapper script
WrapperContent(tool, f, envName, plat) ==
    [text |-> CASE tool = "rterm" /\ plat = "win32" -> "@echo off pixi run R %*"
                [] tool = "rterm" /\ plat # "win32" -> "#!/bin/sh exec pixi run R $@"
                [] tool = "quarto" /\ plat = "win32" -> "@echo off pixi run quarto %*"
                [] OTHER -> "#!/bin/sh exec pixi run quarto $@",
     manifest |-> ManifestName(f),
     env |-> envName]

\* extension.ts:383-449: the files createWrapperScripts writes, in order
WrapperWrites(f, env, plat) ==
    << [path |-> RTermWrapperPath(f, plat),
        content |-> WrapperContent("rterm", f, env.name, plat)],
       [path |-> QuartoWrapperPath(f, plat),
        content |-> WrapperContent("quarto", f, env.name, plat)] >>
    \o (IF ~existsSync(FolderPath(f, ".pixi-activate.sh"))
        THEN << [path |-> FolderPath(f, ".pixi-activate.sh"),
                 content |-> Text("#!/bin/sh # activation hook")] >>
        ELSE << >>)
    \o (IF plat # "win32"
        THEN << [path |-> PrefixPath(env.prefix, "bin/conda"),
                 content |-> Text("#!/bin/sh # conda shim")],
                [path |-> PrefixPath(env.prefix, "bin/activate"),
                 content |-> Text("#!/bin/sh # activate shim")] >>
        ELSE << >>)

AfterWritesIfAbsent(fs, ws, k) ==
    [path \in FilePaths |->
        IF fs[path] = Absent /\ \E i \in 1..k : ws[i].path = path
        THEN ws[CHOOSE i \in 1..k : ws[i].path = path].content
        ELSE fs[path]]

\* the disk after the first k writes of ws
AfterWrites(fs, ws, k) ==
    [path \in FilePaths |->
        IF \E i \in 1..k : ws[i].path = path
        THEN ws[CHOOSE i \in 1..k : ws[i].path = path].content
        ELSE fs[path]]

\* extension.ts:494-510: the settings updates of a folder, in order
SettingUpdates(f, env, plat) ==
    << [key |-> [section |-> "r", key |-> "rpath", os |-> OsKey(plat)],
        value |-> PathValue(RBinPath(env.prefix, plat))],
       [key |-> [section |-> "r", key |-> "rterm", os |-> OsKey(plat)],
        value |-> PathValue(RTermWrapperPath(f, plat))],
       [key |-> [section |-> "quarto", key |-> "path", os |-> ""],
        value |-> PathValue(QuartoWrapperPath(f, plat))] >>

\* a run of setupPixiEnvironment: at is the position of its folder in
\* workspaceFolders; pc is "idle" (no run), "info" (awaiting pixi info) or
\* "update" (awaiting the step-th settings update); env is the environment
\* record selected for the folder; n tells that it is the n-th call
NoRun == [pc |-> "idle", at |-> 0, step |-> 0, env |-> NoEnv, n |-> 0]

\* what the runs did: the folders `pixi info` was executed in, the paths
\* written, the settings updates requested (folder and key), the number of
\* calls so far, and for every folder set up with success, in order: the
\* call it was set up by, the record selected, and the disk and the
\* settings it left
NoHist == [infoCalls |-> {}, written |-> {}, updates |-> {}, started |-> 0,
           done |-> << >>]

\* extension.ts:65-72, 102-104: the loop, from position i on, up to the
\* first folder that has a manifest; 0 when there is none
RECURSIVE NextManifestFolder(_)
NextManifestFolder(i) ==
    IF i > Len(workspaceFolders) THEN 0
    ELSE IF HasManifest(workspaceFolders[i]) THEN i
    ELSE NextManifestFolder(i + 1)

\* the n-th call after the loop went on from position i: it awaits the
\* pixi info of the next folder that has a manifest, or it is over
Advance(i, n) ==
    IF NextManifestFolder(i) = 0 THEN NoRun
    ELSE [NoRun EXCEPT !.pc = "info", !.at = NextManifestFolder(i), !.n = n]

InfoCallsAfter(i) ==
    IF NextManifestFolder(i) = 0 THEN hist.infoCalls
    ELSE hist.infoCalls \cup {workspaceFolders[NextManifestFolder(i)]}

\* extension.ts:58-74: a call of setupPixiEnvironment as run r, up to its
\* first await
CallSetup(r) ==
    /\ runs[r].pc = "idle"
    /\ hist.started < MaxSetups
    /\ runs' = [runs EXCEPT ![r] = Advance(1, hist.started + 1)]
    /\ hist' = [hist EXCEPT !.infoCalls = InfoCallsAfter(1), !.started = @ + 1]

\* a call of setupPixiEnvironment by activation or by the setup command
StartRun(r) ==
    /\ CallSetup(r)
    /\ lastOp' = [NoOp EXCEPT !.op = "setup", !.pid = r,
                              !.result = IF workspaceFolders = << >> THEN "noWorkspace"
                                         ELSE IF NextManifestFolder(1) = 0 THEN "noManifest"
                                         ELSE "info",
                              !.log = TRUE]

\* extension.ts:14-49: the commands are registered and setup is run
activate ==
    /\ ~active
    /\ previewProcess = Null
    /\ active' = TRUE
    /\ StartRun(1)
    /\ UNCHANGED <<previewVars, hostVars, files, settings, install, renderVars>>

\* extension.ts:20-23: the command r-pixi-venv.setup, as the first run not
\* in progress
setupCommand ==
    /\ active
    /\ \E r \in RunIds :
         /\ \A q \in 1..(r - 1) : runs[q].pc # "idle"
         /\ StartRun(r)
    /\ UNCHANGED <<previewVars, active, hostVars, files, settings, install, renderVars>>

\* a call of installPixiDependencies: pc is "idle" (no call) or "add"
\* (awaiting `pixi add` in the folder at position at of workspaceFolders)
NoInstall == [pc |-> "idle", at |-> 0]

\* extension.ts:302-347: the loop of installPixiDependencies from position
\* i on, up to the first folder that has a manifest
InstallAdvance(i) ==
    IF NextManifestFolder(i) = 0 THEN NoInstall
    ELSE [pc |-> "add", at |-> NextManifestFolder(i)]

\* extension.ts:25-28, 295-314: the command r-pixi-venv.installDependencies,
\* given when no call of installPixiDependencies is in progress, up to its
\* first await
installPixiDependencies ==
    /\ active
    /\ install.pc = "idle"
    /\ install' = IF workspaceFolders = << >> THEN NoInstall ELSE InstallAdvance(1)
    /\ lastOp' = [NoOp EXCEPT
                    !.op = "install",
                    !.result = IF workspaceFolders = << >> THEN "noWorkspace"
                               ELSE IF NextManifestFolder(1) = 0 THEN "noManifest"
                               ELSE "add",
                    !.notify = IF workspaceFolders = << >> THEN "error"
                               ELSE IF NextManifestFolder(1) # 1 THEN "warning"
                               ELSE "",
                    !.log = workspaceFolders # << >> /\ NextManifestFolder(1) # 0]
    /\ UNCHANGED <<previewVars, active, hostVars, files, settings, runs, hist,
                   renderVars>>

SetupAfterInstallAlways(error) == TRUE

\* extension.ts:315-325: setupPixiEnvironment is called in the branch of
\* the callback that has no error
SetupAfterInstall(error) == ~error

\* extension.ts:314-326: the callback of `pixi add`, and what follows it up
\* to the next await: on an error the promise is rejected and the call of
\* installPixiDependencies ends; else setupPixiEnvironment is called (as
\* the first run not in progress) and the loop goes on
onInstallExit(error) ==
    /\ install.pc = "add"
    /\ install' = IF error THEN NoInstall ELSE InstallAdvance(install.at + 1)
    /\ IF SetupAfterInstall(error)
       THEN \E r \in RunIds :
              /\ \A q \in 1..(r - 1) : runs[q].pc # "idle"
              /\ CallSetup(r)
              /\ lastOp' = [NoOp EXCEPT
                              !.op = "installExit", !.pid = r,
                              !.folder = workspaceFolders[install.at],
                              !.result = IF error THEN "failed" ELSE "installed",
                              !.notify = IF error THEN "error" ELSE "info",
                              !.log = TRUE,
                              !.fx = <<[e |-> "setup", p |-> r]>>]
       ELSE /\ UNCHANGED <<runs, hist>>
            /\ lastOp' = [NoOp EXCEPT
                            !.op = "installExit",
                            !.folder = workspaceFolders[install.at],
                            !.result = IF error THEN "failed" ELSE "installed",
                            !.notify = IF error THEN "error" ELSE "info",
                            !.log = TRUE]
    /\ UNCHANGED <<previewVars, active, hostVars, files, settings, renderVars>>

\* extension.ts:75-101 and 462-480: the outcome of the folder of run r when
\* its pixi info ends with resp and the k first writes of
\* createWrapperScripts succeed
InfoOutcome(resp, ws, k) ==
    IF resp.kind \in {"execError", "badJson"} THEN resp.kind
    ELSE IF resp.kind \in {"null", "noField"} \/ Len(resp.envs) = 0 THEN "noEnvs"
    ELSE IF ~Truthy(SelectEnv(resp.envs).prefix) THEN "noPrefix"
    ELSE IF k < Len(ws) THEN "writeThrew"
    ELSE "wrote"

\* extension.ts:465-478, 75-101: the callback of `pixi info --json` of run
\* r, and what follows it up to the next await
onPixiInfo(r, resp) ==
    /\ runs[r].pc = "info"
    /\ LET f == workspaceFolders[runs[r].at]
           env == IF resp.kind = "list" /\ Len(resp.envs) > 0
                  THEN SelectEnv(resp.envs) ELSE NoEnv
           ws == IF Truthy(env.prefix) THEN WrapperWrites(f, env, platform) ELSE << >>
       IN  \E k \in 0..Len(ws) :
             LET out == InfoOutcome(resp, ws, k)
                 done == IF out \in {"writeThrew", "wrote"} THEN k ELSE 0
                 upd == SettingUpdates(f, env, platform)
             IN  /\ files' = AfterWrites(files, ws, done)
                 /\ runs' = [runs EXCEPT ![r] =
                               IF out = "wrote"
                               THEN [pc |-> "update", at |-> runs[r].at, step |-> 1,
                                     env |-> env, n |-> runs[r].n]
                               ELSE Advance(runs[r].at + 1, runs[r].n)]
                 /\ hist' = [hist EXCEPT
                               !.written = @ \cup {ws[i].path : i \in 1..done},
                               !.updates = IF out = "wrote"
                                           THEN @ \cup {<<f, upd[1].key>>} ELSE @,
                               !.infoCalls = IF out = "wrote" THEN @
                                             ELSE InfoCallsAfter(runs[r].at + 1)]
                 /\ lastOp' = [NoOp EXCEPT
                                 !.op = "info", !.pid = r, !.folder = f,
                                 !.result = out, !.envs = resp.envs, !.env = env,
                                 !.fx = [i \in 1..done |-> [e |-> "write", p |-> i]],
                                 !.notify = IF out \in {"execError", "badJson", "writeThrew"}
                                            THEN "error" ELSE "",
                                 !.log = TRUE]
    /\ UNCHANGED <<previewVars, active, hostVars, settings, install, renderVars>>

\* extension.ts:494-515, 88: the end of the settings update run r awaits;
\* a failed update is caught by configureWorkspaceSettings, which returns
onSettingsUpdate(r, ok) ==
    /\ runs[r].pc = "update"
    /\ LET f == workspaceFolders[runs[r].at]
           upd == SettingUpdates(f, runs[r].env, platform)
           n == runs[r].step
           more == ok /\ n < Len(upd)
       IN  /\ settings' = IF ok THEN [settings EXCEPT ![upd[n].key] = upd[n].value]
                          ELSE settings
           /\ runs' = [runs EXCEPT ![r] =
                         IF more THEN [@ EXCEPT !.step = n + 1]
                         ELSE Advance(runs[r].at + 1, runs[r].n)]
           /\ hist' = [hist EXCEPT
                         !.updates = IF more THEN @ \cup {<<f, upd[n + 1].key>>} ELSE @,
                         !.infoCalls = IF more THEN @ ELSE InfoCallsAfter(runs[r].at + 1),
                         !.done = IF ok /\ n = Len(upd)
                                  THEN Append(@, [n |-> runs[r].n, folder |-> f,
                                                  env |-> runs[r].env, files |-> files,
                                                  settings |-> settings'])
                                  ELSE @]
           /\ lastOp' = [NoOp EXCEPT
                           !.op = "update", !.pid = r, !.folder = f,
                           !.result = IF ok THEN "applied" ELSE "failed",
                           !.notify = IF more THEN "" ELSE "info",
                           !.log = TRUE]
    /\ UNCHANGED <<previewVars, active, hostVars, files, install, renderVars>>

\* the workspaces of the model: the folders of `with` have a manifest,
\* pixi.toml in the odd folders and pyproject.toml in the even ones
ManifestOnDisk(with) ==
    [path \in FilePaths |->
        IF path.f \in with
           /\ path.name = (IF path.f % 2 = 1 THEN "pixi.toml" ELSE "pyproject.toml")
        THEN Text("manifest") ELSE Absent]

InitSetup ==
    /\ previewProcess = Null
    /\ proc = [p \in Pids |-> NoProc]
    /\ active = FALSE
    /\ platform \in {"linux", "win32"}
    /\ \E with \in SUBSET Folders :
         /\ files = ManifestOnDisk(with)
         /\ workspaceFolders \in
               {[i \in 1..NFolders |-> i]} \cup (IF with = {} THEN {<< >>} ELSE {})
    /\ settings = [k \in SettingKeys |-> Unset]
    /\ runs = [r \in RunIds |-> NoRun]
    /\ install = NoInstall
    /\ hist = NoHist
    /\ renders = << >>
    /\ picking = FALSE
    /\ lastOp = NoOp

\* extension.ts:20-23: the command r-pixi-venv.setup given when no call of
\* setupPixiEnvironment is in progress
setupAgain ==
    /\ \A r \in RunIds : runs[r].pc = "idle"
    /\ setupCommand

\* the setup run of activation in a workspace
NextSetup ==
    \/ activate
    \/ \E r \in RunIds, resp \in InfoSamples : onPixiInfo(r, resp)
    \/ \E r \in RunIds, ok \in BOOLEAN : onSettingsUpdate(r, ok)

SpecSetup == InitSetup /\ [][NextSetup]_vars

\* the setup run of activation in a workspace whose first folder alone has
\* a manifest, with every response of `pixi info --json`
InitSelect ==
    /\ previewProcess = Null
    /\ proc = [p \in Pids |-> NoProc]
    /\ active = FALSE
    /\ platform \in Platforms
    /\ files = ManifestOnDisk({1})
    /\ workspaceFolders = [i \in 1..NFolders |-> i]
    /\ settings = [k \in SettingKeys |-> Unset]
    /\ runs = [r \in RunIds |-> NoRun]
    /\ install = NoInstall
    /\ hist = NoHist
    /\ renders = << >>
    /\ picking = FALSE
    /\ lastOp = NoOp

NextSelect ==
    \/ activate
    \/ \E r \in RunIds, resp \in InfoResponses : onPixiInfo(r, resp)
    \/ \E r \in RunIds, ok \in BOOLEAN : onSettingsUpdate(r, ok)

SpecSelect == InitSelect /\ [][NextSelect]_vars

\* setup run again and again in that workspace, each call after the one
\* before it is over
NextTwice ==
    \/ activate
    \/ setupAgain
    \/ \E r \in RunIds, resp \in InfoSamples : onPixiInfo(r, resp)
    \/ \E r \in RunIds, ok \in BOOLEAN : onSettingsUpdate(r, ok)

SpecTwice == InitSelect /\ [][NextTwice]_vars

\* the responses of `pixi info --json` in the workspaces of the install
\* command: the ones that end the setup of a folder at once (a failure,
\* malformed output, no environment, no prefix)
InstallInfoSamples ==
    {resp \in InfoSamples : \A i \in 1..Len(resp.envs) : ~Truthy(resp.envs[i].prefix)}

\* the workspaces of the install command: on linux, every folder with a
\* manifest or without
InitInstall ==
    /\ previewProcess = Null
    /\ proc = [p \in Pids |-> NoProc]
    /\ active = FALSE
    /\ platform = "linux"
    /\ \E with \in SUBSET Folders : files = ManifestOnDisk(with)
    /\ workspaceFolders = [i \in 1..NFolders |-> i]
    /\ settings = [k \in SettingKeys |-> Unset]
    /\ runs = [r \in RunIds |-> NoRun]
    /\ install = NoInstall
    /\ hist = NoHist
    /\ renders = << >>
    /\ picking = FALSE
    /\ lastOp = NoOp

\* activation and the install command in a workspace
NextInstall ==
    \/ activate
    \/ installPixiDependencies
    \/ \E error \in BOOLEAN : onInstallExit(error)
    \/ \E r \in RunIds, resp \in InstallInfoSamples : onPixiInfo(r, resp)

SpecInstall == InitInstall /\ [][NextInstall]_vars

-----------------------------------------------------------------------------
(* The render invoker: renderQuartoDocument, renderQuartoDocumentWithFormat *)

\* the value of the format parameter when the argument is omitted
NoFormat == "<undefined>"

\* extension.ts:109-117: the labels of the format picker
FormatLabels == {"html", "pdf", "docx", "typst", "revealjs", "pptx", "gfm"}

\* showQuickPick resolved with no selection
Cancelled == "<cancelled>"

\* the pieces of a command line: literal text, a path of the disk, a
\* document's file name
Lit(t) == [t |-> "lit", v |-> t, f |-> Null]

PathPiece(path) == [t |-> "path", v |-> path.name, f |-> path.f]

DocPiece(d) == [t |-> "doc", v |-> d, f |-> Null]

FormatArgAlways(format) == << Lit(" --to "), Lit(format) >>

\* extension.ts:167: format ? ` --to ${format}` : ''
FormatArg(format) ==
    IF format # NoFormat /\ format # "" THEN << Lit(" --to "), Lit(format) >> ELSE << >>

\* extension.ts:168
RenderCommand(quartoWrapperPath, d, format) ==
    << Lit("\""), PathPiece(quartoWrapperPath), Lit("\""), Lit(" render "),
       Lit("\""), DocPiece(d), Lit("\"") >> \o FormatArg(format)

RenderBodyExclusive(by, d, format) ==
    IF RequestCheck(d) # "ok"
    THEN /\ renders' = renders
         /\ lastOp' = [NoOp EXCEPT !.op = by, !.result = RequestCheck(d), !.doc = d,
                                   !.format = format, !.notify = "error"]
    ELSE /\ renders' = << [command |-> RenderCommand(
                                         QuartoWrapperPath(DocFolder(d), platform),
                                         d, format),
                           doc |-> d, format |-> format, cwd |-> DocFolder(d)] >>
         /\ lastOp' = [NoOp EXCEPT !.op = by, !.result = "ok", !.doc = d,
                                   !.format = format,
                                   !.fx = <<[e |-> "exec", p |-> 1]>>]

\* extension.ts:131-205: renderQuartoDocument(format) with document d in
\* the active editor, called by `by`
RenderBody(by, d, format) ==
    IF RequestCheck(d) # "ok"
    THEN /\ renders' = renders
         /\ lastOp' = [NoOp EXCEPT !.op = by, !.result = RequestCheck(d), !.doc = d,
                                   !.format = format, !.notify = "error"]
    ELSE /\ Len(renders) < MaxRenders
         /\ renders' = Append(renders,
               [command |-> RenderCommand(QuartoWrapperPath(DocFolder(d), platform),
                                          d, format),
                doc |-> d, format |-> format, cwd |-> DocFolder(d)])
         /\ lastOp' = [NoOp EXCEPT !.op = by, !.result = "ok", !.doc = d,
                                   !.format = format,
                                   !.fx = <<[e |-> "exec", p |-> Len(renders) + 1]>>]

\* extension.ts:30-33: the command r-pixi-venv.renderQuarto
renderQuartoDocument(d) ==
    /\ active
    /\ RenderBody("render", d, NoFormat)
    /\ UNCHANGED <<previewVars, active, hostVars, files, setupVars, picking>>

renderFormatStopsPreview ==
    /\ active
    /\ ~picking
    /\ picking' = TRUE
    /\ LET s == KillExisting([pp |-> previewProcess, proc |-> proc, fx |-> <<>>])
       IN  /\ previewProcess' = s.pp
           /\ proc' = s.proc
    /\ lastOp' = [NoOp EXCEPT !.op = "renderFormat"]
    /\ UNCHANGED <<active, hostVars, files, setupVars, renders>>

\* extension.ts:35-38, 108-122: the command r-pixi-venv.renderQuartoFormat,
\* up to its await of the picker
renderQuartoDocumentWithFormat ==
    /\ active
    /\ ~picking
    /\ picking' = TRUE
    /\ lastOp' = [NoOp EXCEPT !.op = "renderFormat"]
    /\ UNCHANGED <<previewVars, active, hostVars, files, setupVars, renders>>

\* extension.ts:124-128: the picker is closed with a label chosen or with
\* none, document d being in the active editor
onPick(choice, d) ==
    /\ picking
    /\ picking' = FALSE
    /\ IF choice = Cancelled
       THEN /\ renders' = renders
            /\ lastOp' = [NoOp EXCEPT !.op = "pick", !.result = "cancelled", !.doc = d]
       ELSE RenderBody("pick", d, choice)
    /\ UNCHANGED <<previewVars, active, hostVars, files, setupVars>>

\* extension.ts:178-187: the callback of exec for the i-th render in flight
onRenderExit(i, error) ==
    /\ i \in 1..Len(renders)
    /\ renders' = [j \in 1..(Len(renders) - 1) |->
                     IF j < i THEN renders[j] ELSE renders[j + 1]]
    /\ lastOp' = [NoOp EXCEPT !.op = "renderExit", !.doc = renders[i].doc,
                              !.format = renders[i].format,
                              !.result = IF error THEN "failed" ELSE "rendered",
                              !.notify = IF error THEN "error" ELSE "info",
                              !.log = error]
    /\ UNCHANGED <<previewVars, active, hostVars, files, setupVars, picking>>

\* the chunks a render process writes in the model
RenderChunks ==
    { <<"x">>,
      <<ESC, "[", "1", "m", "x">>,
      <<ESC, "[", "1", "m", BoxChar, "x">> }

\* extension.ts:192 and 199-200: the text appended to the log for a chunk
\* of a render process
RenderLogText(stream, str) ==
    IF stream = "stdout" THEN stripAnsi(str) ELSE CleanedStr(str)

\* extension.ts:189-202: a chunk of the i-th render in flight on stdout or
\* stderr
onRenderData(i, stream, data) ==
    /\ i \in 1..Len(renders)
    /\ lastOp' = [NoOp EXCEPT !.op = "renderData", !.stream = stream,
                              !.data = data, !.text = RenderLogText(stream, data)]
    /\ UNCHANGED <<previewVars, active, hostVars, files, setupVars, renderVars>>

-----------------------------------------------------------------------------
(* The preview supervisor alone: the wrapper scripts of an earlier setup   *)
(* run are on disk or not.                                                 *)

\* the quarto wrapper of every folder but the last is on disk
WrappersOnDisk ==
    [path \in FilePaths |->
        IF path.f \in Folders \ {NFolders} /\ path = QuartoWrapperPath(path.f, "linux")
        THEN Text("#!/bin/sh quarto")
        ELSE Absent]

InitPreview ==
    /\ previewProcess = Null
    /\ proc = [p \in Pids |-> NoProc]
    /\ active = TRUE
    /\ platform = "linux"
    /\ workspaceFolders = [i \in 1..NFolders |-> i]
    /\ files = WrappersOnDisk
    /\ settings = [k \in SettingKeys |-> Unset]
    /\ runs = [r \in RunIds |-> NoRun]
    /\ install = NoInstall
    /\ hist = NoHist
    /\ renders = << >>
    /\ picking = FALSE
    /\ lastOp = NoOp

NextPreview ==
    \/ \E d \in Docs \cup {NoEditor} : previewQuartoDocument(d)
    \/ \E p \in Pids, stream \in {"stdout", "stderr"}, data \in PreviewChunks :
         handleOutput(p, stream, data)
    \/ \E p \in Pids : ProcessExit(p)
    \/ \E p \in Pids : onClose(p)
    \/ \E p \in Pids : onError(p)
    \/ deactivate

SpecPreview == InitPreview /\ [][NextPreview]_vars

\* the labels chosen in the format picker in the model
FormatSamples == {"html", "pdf"}

\* the render commands alone, in the same workspace
NextRender ==
    \/ \E d \in Docs \cup {NoEditor} : renderQuartoDocument(d)
    \/ renderQuartoDocumentWithFormat
    \/ \E choice \in FormatSamples \cup {Cancelled}, d \in Docs \cup {NoEditor} :
         onPick(choice, d)
    \/ \E i \in 1..MaxRenders, error \in BOOLEAN : onRenderExit(i, error)
    \/ \E i \in 1..MaxRenders, stream \in {"stdout", "stderr"}, data \in RenderChunks :
         onRenderData(i, stream, data)

SpecRender == InitPreview /\ [][NextRender]_vars

\* a preview next to the other commands: the extension is active in a
\* workspace whose first folder has a manifest and whose folders but the
\* last have their quarto wrapper; the active editor shows a.qmd; pixi info
\* fails; the preview processes are followed up to their exit
InitFrame ==
    /\ previewProcess = Null
    /\ proc = [p \in Pids |-> NoProc]
    /\ active = TRUE
    /\ platform = "linux"
    /\ workspaceFolders = [i \in 1..NFolders |-> i]
    /\ files = [path \in FilePaths |->
                  IF ManifestOnDisk({1})[path] # Absent
                  THEN ManifestOnDisk({1})[path] ELSE WrappersOnDisk[path]]
    /\ settings = [k \in SettingKeys |-> Unset]
    /\ runs = [r \in RunIds |-> NoRun]
    /\ install = NoInstall
    /\ hist = NoHist
    /\ renders = << >>
    /\ picking = FALSE
    /\ lastOp = NoOp

NextFrame ==
    \/ previewQuartoDocument("a.qmd")
    \/ deactivate
    \/ setupCommand
    \/ \E r \in RunIds : onPixiInfo(r, [kind |-> "execError", envs |-> << >>])
    \/ installPixiDependencies
    \/ \E error \in BOOLEAN : onInstallExit(error)
    \/ renderQuartoDocumentWithFormat
    \/ \E choice \in {"pdf", Cancelled} : onPick(choice, "a.qmd")
    \/ \E i \in 1..MaxRenders, error \in BOOLEAN : onRenderExit(i, error)

SpecFrame == InitFrame /\ [][NextFrame]_vars

-----------------------------------------------------------------------------
(* The whole extension; the specifications above are its parts *)

Init == InitSetup

Next ==
    \/ activate
    \/ setupCommand
    \/ installPixiDependencies
    \/ \E error \in BOOLEAN : onInstallExit(error)
    \/ \E r \in RunIds, resp \in InfoResponses : onPixiInfo(r, resp)
    \/ \E r \in RunIds, ok \in BOOLEAN : onSettingsUpdate(r, ok)
    \/ \E d \in Docs \cup {NoEditor} : previewQuartoDocument(d)
    \/ \E p \in Pids, stream \in {"stdout", "stderr"}, data \in PreviewChunks :
         handleOutput(p, stream, data)
    \/ \E p \in Pids : ProcessExit(p)
    \/ \E p \in Pids : onClose(p)
    \/ \E p \in Pids : onError(p)
    \/ deactivate
    \/ \E d \in Docs \cup {NoEditor} : renderQuartoDocument(d)
    \/ renderQuartoDocumentWithFormat
    \/ \E choice \in FormatLabels \cup {Cancelled}, d \in Docs \cup {NoEditor} :
         onPick(choice, d)
    \/ \E i \in 1..MaxRenders, error \in BOOLEAN : onRenderExit(i, error)
    \/ \E i \in 1..MaxRenders, stream \in {"stdout", "stderr"}, data \in RenderChunks :
         onRenderData(i, stream, data)

Spec == Init /\ [][Next]_vars


-----------------------------------------------------------------------------
(* Claims about the preview supervisor *)

LiveProcs == {p \in Pids : proc[p].st = "live"}

\* C1: the number of preview processes that were spawned and have not yet
\* exited is never greater than one.
C1_AtMostOneLive == Cardinality(LiveProcs) <= 1

\* C2: a preview request that passes its checks while a process is tracked
\* sends that process one SIGINT, then resets the handle to null, then
\* spawns the new process and makes it the tracked handle, in this order and
\* with nothing else in between; the superseded process has then been sent
\* exactly one SIGINT in all.  With no process tracked, it only spawns.
C2_SupersedeInOrder ==
    (lastOp.op = "preview" /\ lastOp.result = "ok") =>
        /\ previewProcess = lastOp.pid
        /\ IF lastOp.was # Null
           THEN /\ lastOp.fx = << [e |-> "kill", p |-> lastOp.was],
                                  [e |-> "handle", p |-> Null],
                                  [e |-> "spawn", p |-> lastOp.pid],
                                  [e |-> "handle", p |-> lastOp.pid] >>
                /\ proc[lastOp.was].sig = 1
           ELSE lastOp.fx = << [e |-> "spawn", p |-> lastOp.pid],
                               [e |-> "handle", p |-> lastOp.pid] >>

C2_Witness ==
    /\ lastOp.op = "preview"
    /\ lastOp.result = "ok"
    /\ lastOp.was # Null
    /\ proc[lastOp.was].st = "live"

\* C3: the close event of the tracked process leaves the handle null, and a
\* null handle stays null until a preview request is handled.
C3_CloseReturnsToIdle ==
    /\ [][(lastOp'.op = "close" /\ lastOp'.pid = previewProcess) =>
              previewProcess' = Null]_vars
    /\ [][(previewProcess = Null /\ previewProcess' # Null) =>
              (lastOp'.op = "preview" /\ lastOp'.result = "ok")]_vars

C3_Witness ==
    /\ lastOp.op = "close"
    /\ lastOp.was = lastOp.pid
    /\ proc[lastOp.pid].sig = 0
    /\ previewProcess = Null

\* C4: after the error event of the tracked process has been handled, the
\* tracked handle is null.
C4_ErrorReturnsToIdle ==
    (lastOp.op = "error" /\ lastOp.pid = lastOp.was) => previewProcess = Null

\* C5: deactivate, with a process tracked, sends it one SIGINT and sets the
\* handle to null in the same step, the process being left as it was (its
\* exit is not awaited); with no process tracked it sends no signal and
\* changes neither the handle nor any process.
C5_Teardown ==
    [][lastOp'.op = "deactivate" =>
          IF previewProcess # Null
          THEN /\ previewProcess' = Null
               /\ proc' = [proc EXCEPT ![previewProcess].sig = @ + 1]
          ELSE UNCHANGED <<previewProcess, proc>>]_vars

C5_Witness ==
    /\ lastOp.op = "deactivate"
    /\ lastOp.was # Null
    /\ proc[lastOp.was].st = "live"
    /\ proc[lastOp.was].sig = 1
    /\ previewProcess = Null

\* C6: for every preview process, the embedded browser is opened at most
\* once: not before the first chunk in whose logged text the scan finds a
\* loopback URL, once on that chunk, and never again on a later chunk of
\* either stream.
C6_BrowserOpenedOnce ==
    \A p \in Pids : proc[p].opened = IF proc[p].url THEN 1 ELSE 0

C6_Witness ==
    /\ lastOp.op = "data"
    /\ lastOp.result = "url"
    /\ lastOp.stream = "stderr"
    /\ lastOp.fx = <<>>
    /\ proc[lastOp.pid].opened = 1


-----------------------------------------------------------------------------
(* Claims about setup *)

\* C7: for every non-empty list of environment records, setup selects a
\* record named "default" if the list has one, whatever its position, and
\* the first record of the list otherwise; the selected record is the one
\* whose name goes into the wrapper scripts.
C7_SelectsDefaultOrFirst ==
    (lastOp.op = "info" /\ Len(lastOp.envs) > 0) =>
        LET envs == lastOp.envs
            defaults == {i \in 1..Len(envs) : envs[i].name = "default"}
        IN  /\ IF defaults # {}
               THEN \E i \in defaults : lastOp.env = envs[i]
               ELSE lastOp.env = envs[1]
            /\ lastOp.result = "wrote" =>
                 /\ runs[lastOp.pid].env = lastOp.env
                 /\ files[QuartoWrapperPath(lastOp.folder, platform)].env = lastOp.env.name
                 /\ files[RTermWrapperPath(lastOp.folder, platform)].env = lastOp.env.name

C7_Witness ==
    /\ lastOp.op = "info"
    /\ lastOp.result = "wrote"
    /\ Len(lastOp.envs) = 2
    /\ lastOp.envs[1].name = "dev"
    /\ lastOp.envs[1].prefix = "/env2"
    /\ lastOp.envs[2].name = "default"
    /\ lastOp.env = lastOp.envs[2]

\* C8: when the record selected from a non-empty list has no prefix (the
\* field missing, or empty), the folder's setup ends with the "no prefix"
\* error, writes no file, changes no setting and requests no settings update.
C8_NoPrefixAborts ==
    [][(/\ lastOp'.op = "info"
        /\ Len(lastOp'.envs) > 0
        /\ lastOp'.env.prefix \in {NoPrefix, ""})
       => /\ lastOp'.result = "noPrefix"
          /\ lastOp'.fx = << >>
          /\ UNCHANGED <<files, settings>>
          /\ hist'.written = hist.written
          /\ hist'.updates = hist.updates
          /\ runs'[lastOp'.pid].pc # "update"]_vars

C8_Witness ==
    /\ lastOp.op = "info"
    /\ lastOp.result = "noPrefix"
    /\ Len(lastOp.envs) = 2
    /\ lastOp.env.name = "default"
    /\ lastOp.env.prefix = ""
    /\ lastOp.envs[1].prefix = "/env2"

\* C9: for a workspace folder with neither pixi.toml nor pyproject.toml, a
\* setup run executes no pixi command in it, writes no file of it and
\* requests no settings update for it, whatever the other folders hold.
C9_NoManifestNoEffect ==
    \A f \in Folders :
        (/\ files[FolderPath(f, "pixi.toml")] = Absent
         /\ files[FolderPath(f, "pyproject.toml")] = Absent)
        => /\ f \notin hist.infoCalls
           /\ \A path \in hist.written : path.f # f
           /\ \A u \in hist.updates : u[1] # f
           /\ \A path \in FilePaths : path.f = f => files[path] = Absent

C9_Witness ==
    /\ files[FolderPath(1, "pixi.toml")] = Absent
    /\ files[FolderPath(1, "pyproject.toml")] = Absent
    /\ lastOp.op = "update"
    /\ lastOp.result = "applied"
    /\ lastOp.folder = 2
    /\ runs[1].pc = "idle"
    /\ settings[[section |-> "quarto", key |-> "path", os |-> ""]]
         = PathValue(QuartoWrapperPath(2, platform))


-----------------------------------------------------------------------------
(* Claims about the render invoker *)

\* C10: the command line of every render is "<quarto wrapper>" render
\* "<document>", followed by ` --to <format>` exactly when a format was
\* given: with format "pdf" it ends with `--to pdf`, with the format omitted
\* it has no `--to`; and a cancelled format picker starts no render.
C10_RenderCommandLine ==
    /\ [](\A i \in 1..Len(renders) :
            LET r == renders[i]
                head == << Lit("\""),
                           PathPiece(QuartoWrapperPath(DocFolder(r.doc), platform)),
                           Lit("\""), Lit(" render "), Lit("\""), DocPiece(r.doc),
                           Lit("\"") >>
            IN  /\ r.format \in FormatLabels =>
                     r.command = head \o << Lit(" --to "), Lit(r.format) >>
                /\ r.format \notin FormatLabels =>
                     /\ r.format = NoFormat
                     /\ r.command = head
                     /\ \A j \in 1..Len(r.command) : r.command[j] # Lit(" --to "))
    /\ [][(lastOp'.op = "pick" /\ lastOp'.result = "cancelled") =>
             renders' = renders]_vars

C10_Witness ==
    /\ Len(renders) = 2
    /\ renders[1].format = NoFormat
    /\ renders[2].format = "pdf"
    /\ renders[2].command[8] = Lit(" --to ")
    /\ renders[2].command[9] = Lit("pdf")
    /\ lastOp.op = "pick"


-----------------------------------------------------------------------------
(* Claims about the output of the preview and render processes *)

\* C11: the text handleOutput appends to the log for a chunk of a preview
\* process, on stdout or stderr, contains no escape sequence and no
\* character above 0x7F, and the URL scan runs on that text.
C11_PreviewLogSanitized ==
    lastOp.op = "data" =>
        /\ \A i \in 1..Len(lastOp.text) :
             /\ AnsiMatchAt(lastOp.text, i) = 0
             /\ ~IsNonAscii(lastOp.text[i])
        /\ (lastOp.result = "url") = UrlMatch(lastOp.text)

\* C12: the text appended to the log for a chunk of a render process, on
\* stdout as on stderr, contains no escape sequence and no character above
\* 0x7F, and is the same text for the same chunk on either stream.
C12_RenderLogSanitized ==
    lastOp.op = "renderData" =>
        /\ \A i \in 1..Len(lastOp.text) :
             /\ AnsiMatchAt(lastOp.text, i) = 0
             /\ ~IsNonAscii(lastOp.text[i])
        /\ lastOp.text = RenderLogText("stderr", lastOp.data)


-----------------------------------------------------------------------------
(* Claims about errors *)

\* C13: every error of the taxonomy (no manifest, pixi info failed,
\* malformed JSON, no environments, no prefix, wrapper script missing at
\* render or preview time, render failed, preview process error) is both
\* written to the output view and shown in a notification, and a setup run
\* does not execute pixi info again in the folder that failed.
C13_ErrorsLoggedAndNotified ==
    (\/ lastOp.op = "setup" /\ lastOp.result = "noManifest"
     \/ lastOp.op = "info"
          /\ lastOp.result \in {"execError", "badJson", "noEnvs", "noPrefix"}
     \/ lastOp.op \in {"preview", "render", "pick"} /\ lastOp.result = "noWrapper"
     \/ lastOp.op = "renderExit" /\ lastOp.result = "failed"
     \/ lastOp.op = "error")
    => /\ lastOp.log
       /\ lastOp.notify # ""
       /\ lastOp.op = "info" =>
            \/ runs[lastOp.pid].pc = "idle"
            \/ workspaceFolders[runs[lastOp.pid].at] # lastOp.folder


-----------------------------------------------------------------------------
(* Claims about the effects of setup *)

\* C14: when the setup of a folder fails (pixi info fails, its output is
\* malformed, a file write throws or a settings update fails), every
\* wrapper script, activation hook, shim and setting has the value it had
\* before the run began; in the workspaces of SpecSetup and SpecSelect that
\* is: no generated file exists and no setting is set.
C14_SetupAtomic ==
    (\/ lastOp.op = "info" /\ lastOp.result \in {"execError", "badJson", "writeThrew"}
     \/ lastOp.op = "update" /\ lastOp.result = "failed")
    => /\ \A path \in FilePaths :
            (path.f = lastOp.folder \/ path.f = Null) /\ path.name \notin ManifestNames
                => files[path] = Absent
       /\ \A k \in SettingKeys : settings[k] = Unset

\* C15: every successful setup of a folder leaves its two wrapper scripts
\* with the environment name of this run and the shims of this run's
\* prefix on disk, whatever was there before; and a successful setup that
\* follows a successful setup of the same folder with the same selected
\* record (manifest and platform do not change) leaves the same disk and
\* the same settings as the first one did.
C15_SetupIdempotent ==
    \A j \in 1..Len(hist.done) :
        LET b == hist.done[j]
        IN  /\ b.files[QuartoWrapperPath(b.folder, platform)].env = b.env.name
            /\ b.files[RTermWrapperPath(b.folder, platform)].env = b.env.name
            /\ platform # "win32" =>
                 /\ b.files[PrefixPath(b.env.prefix, "bin/conda")] # Absent
                 /\ b.files[PrefixPath(b.env.prefix, "bin/activate")] # Absent
            /\ \A i \in 1..Len(hist.done) :
                 LET a == hist.done[i]
                 IN  (a.n + 1 = b.n /\ a.folder = b.folder /\ a.env = b.env)
                         => (a.files = b.files /\ a.settings = b.settings)

C15_Witness ==
    /\ Len(hist.done) = 2
    /\ hist.done[1].n = 1
    /\ hist.done[2].n = 2
    /\ hist.done[1].env = hist.done[2].env
    /\ hist.done[2].files[QuartoWrapperPath(1, platform)] # Absent
    /\ hist.done[2].settings[[section |-> "quarto", key |-> "path", os |-> ""]] # Unset
    /\ lastOp.op = "update"

\* C16: after a successful setup of a folder, of the r.rpath.* and
\* r.rterm.* settings exactly those of the host operating system are set
\* (windows on win32, mac on darwin, linux otherwise); r.rpath holds the R
\* binary under the prefix of the selected record, r.rterm the rterm
\* wrapper script of the folder, and quarto.path its quarto wrapper script.
C16_HostSettings ==
    \A j \in 1..Len(hist.done) :
        LET b == hist.done[j]
            win == platform = "win32"
            os == IF win THEN "windows" ELSE IF platform = "darwin" THEN "mac" ELSE "linux"
            rbin == [kind |-> "path", f |-> Null, prefix |-> b.env.prefix,
                     name |-> IF win THEN "lib/R/bin/R.exe" ELSE "bin/R"]
            rterm == [kind |-> "path", f |-> b.folder, prefix |-> "",
                      name |-> IF win THEN ".vscode/rterm-pixi-wrapper.bat"
                               ELSE ".vscode/rterm-pixi-wrapper.sh"]
            quarto == [kind |-> "path", f |-> b.folder, prefix |-> "",
                       name |-> IF win THEN ".vscode/quarto-pixi-wrapper.bat"
                                ELSE ".vscode/quarto-pixi-wrapper.sh"]
        IN  /\ b.settings[[section |-> "r", key |-> "rpath", os |-> os]] = rbin
            /\ b.settings[[section |-> "r", key |-> "rterm", os |-> os]] = rterm
            /\ b.settings[[section |-> "quarto", key |-> "path", os |-> ""]] = quarto
            /\ \A k \in SettingKeys :
                 (k.section = "r" /\ k.os # os) =>
                     /\ b.settings[k] = Unset
                     /\ \A u \in hist.updates : u[2] # k
            /\ b.env.prefix \in Prefixes

C16_Witness ==
    /\ Len(hist.done) = 1
    /\ platform = "darwin"
    /\ lastOp.op = "update"
    /\ lastOp.result = "applied"
    /\ settings[[section |-> "r", key |-> "rpath", os |-> "mac"]]
         = [kind |-> "path", f |-> Null, prefix |-> "/env2", name |-> "bin/R"]
    /\ settings[[section |-> "r", key |-> "rpath", os |-> "linux"]] = Unset


-----------------------------------------------------------------------------
(* Claims about commands *)

\* C17: a preview request made with no active editor, with a file that is
\* no Quarto or RMarkdown document, with a file outside every workspace
\* folder, or with the quarto wrapper script of the file's folder missing,
\* sends no signal, leaves the tracked handle and every process as they
\* were and spawns nothing.
C17_FailedPreviewTouchesNothing ==
    [][(/\ lastOp'.op = "preview"
        /\ LET d == lastOp'.doc
           IN  \/ d = NoEditor
               \/ DocLanguage(d) # "quarto" /\ DocSuffix(d) \notin {".qmd", ".rmd"}
               \/ DocFolder(d) = Null
               \/ files[FolderPath(DocFolder(d),
                                   IF platform = "win32"
                                   THEN ".vscode/quarto-pixi-wrapper.bat"
                                   ELSE ".vscode/quarto-pixi-wrapper.sh")] = Absent)
       => /\ lastOp'.result # "ok"
          /\ lastOp'.fx = << >>
          /\ UNCHANGED <<previewProcess, proc>>]_vars

C17_Witness ==
    /\ lastOp.op = "preview"
    /\ lastOp.result = "noWrapper"
    /\ previewProcess # Null
    /\ proc[previewProcess].st = "live"
    /\ proc[previewProcess].sig = 0

\* C18: when `pixi add` of the install command fails, no call of
\* setupPixiEnvironment is made, a failure notification is shown and the
\* install command is over; when it succeeds, setupPixiEnvironment is
\* called in the same step (a run that was not in progress now awaits pixi
\* info); and no other step of the install command calls it.
C18_SetupOnlyAfterInstall ==
    /\ [][lastOp'.op = "installExit" =>
            IF lastOp'.result = "failed"
            THEN /\ runs' = runs
                 /\ hist'.started = hist.started
                 /\ lastOp'.notify = "error"
                 /\ install'.pc = "idle"
            ELSE /\ hist'.started = hist.started + 1
                 /\ lastOp'.notify = "info"
                 /\ \E r \in RunIds :
                      /\ runs[r].pc = "idle"
                      /\ runs'[r].pc = "info"
                      /\ runs'[r].n = hist'.started]_vars
    /\ [][hist'.started # hist.started =>
            \/ lastOp'.op = "setup"
            \/ lastOp'.op = "installExit" /\ lastOp'.result = "installed"]_vars

C18_Witness ==
    /\ lastOp.op = "installExit"
    /\ lastOp.result = "installed"
    /\ lastOp.folder = 2
    /\ hist.started = 2
    /\ runs[lastOp.pid].pc = "info"
    /\ runs[lastOp.pid].n = 2


-----------------------------------------------------------------------------
(* Claims about operations in progress *)

\* the calls of setupPixiEnvironment, of installPixiDependencies and the
\* renders that await their external process
OperationsInProgress ==
    Cardinality({r \in RunIds : runs[r].pc # "idle"})
        + (IF install.pc # "idle" THEN 1 ELSE 0)
        + Len(renders)

\* C19: of setup, install and render, no two operations are in progress at
\* the same time: a command is processed only when the operation before it
\* is over.
C19_OneOperationAtATime == OperationsInProgress <= 1

\* C20: a render request that passes its checks starts its process at once,
\* whatever renders are in flight, and leaves those as they are; the exit
\* of a render process ends this render alone, with a success or a failure
\* notification of its own.
C20_RendersRunConcurrently ==
    /\ [][(lastOp'.op \in {"render", "pick"} /\ lastOp'.result = "ok") =>
            /\ Len(renders') = Len(renders) + 1
            /\ \A i \in 1..Len(renders) : renders'[i] = renders[i]
            /\ renders'[Len(renders')].doc = lastOp'.doc
            /\ lastOp'.fx = <<[e |-> "exec", p |-> Len(renders')]>>]_vars
    /\ [][lastOp'.op = "renderExit" =>
            /\ lastOp'.notify = (IF lastOp'.result = "failed" THEN "error" ELSE "info")
            /\ \E i \in 1..Len(renders) :
                 /\ renders[i].doc = lastOp'.doc
                 /\ renders[i].format = lastOp'.format
                 /\ Len(renders') = Len(renders) - 1
                 /\ \A j \in 1..Len(renders') :
                      renders'[j] = renders[IF j < i THEN j ELSE j + 1]]_vars

C20_Witness ==
    /\ lastOp.op = "render"
    /\ lastOp.result = "ok"
    /\ lastOp.doc = "a.qmd"
    /\ Len(renders) = 2
    /\ renders[1].doc = "a.qmd"
    /\ renders[1].format = "html"
    /\ renders[2].doc = "a.qmd"
    /\ renders[2].format = NoFormat


-----------------------------------------------------------------------------
(* Claims about the ownership of the preview process *)

\* C21: the steps of setup, install, render and the format picker leave
\* the tracked handle and every preview process as they were; the handle
\* changes only in a preview request, a close event or deactivation, and a
\* signal is sent only by a preview request or by deactivation.
C21_HandleOwnedBySupervisor ==
    /\ [][lastOp'.op \in {"setup", "info", "update", "install", "installExit",
                          "render", "renderFormat", "pick", "renderExit",
                          "renderData"}
            => UNCHANGED <<previewProcess, proc>>]_vars
    /\ [][previewProcess' # previewProcess =>
            lastOp'.op \in {"preview", "close", "deactivate"}]_vars
    /\ [][(\E p \in Pids : proc'[p].sig # proc[p].sig) =>
            lastOp'.op \in {"preview", "deactivate"}]_vars

C21_Witness ==
    /\ lastOp.op = "pick"
    /\ lastOp.result = "ok"
    /\ Len(renders) = 1
    /\ previewProcess # Null
    /\ proc[previewProcess].st = "live"
    /\ proc[previewProcess].sig = 0
    /\ runs[1].pc = "info"
    /\ install.pc = "add"

\* C22: a preview process that is live and was never sent SIGINT is the
\* tracked handle; so the close event of a superseded process does not
\* clear the handle of its successor, and with a null handle every process
\* spawned has exited or was sent SIGINT.
C22_LiveUnsignalledIsTracked ==
    \A p \in Pids : (proc[p].st = "live" /\ proc[p].sig = 0) => previewProcess = p

\* C23: the embedded browser is opened only on a chunk of the process
\* that is the tracked handle when the chunk arrives: a chunk of a process
\* that was superseded, or that was tracked when deactivate ran, opens
\* nothing.
C23_BrowserOnlyForTracked ==
    (lastOp.op = "data" /\ lastOp.fx # << >>) => lastOp.pid = lastOp.was


-----------------------------------------------------------------------------
(* Claims about the notifications of setup *)

\* C24: the success notification of a folder's setup is shown only when
\* its three settings updates (r.rpath, r.rterm, quarto.path) were
\* applied; a step in which a settings update fails shows none.
C24_SuccessOnlyIfSettingsApplied ==
    (lastOp.op = "update" /\ lastOp.notify = "info") =>
        /\ lastOp.result = "applied"
        /\ \A k \in SettingKeys :
             (k.section = "quarto" \/ k.os = (IF platform = "win32" THEN "windows"
                                              ELSE IF platform = "darwin" THEN "mac"
                                              ELSE "linux"))
                 => settings[k] # Unset

=============================================================================
